---- MODULE Spec2Model ----
(***************************************************************************)
(* Model of derive/src/pymodule.rs: the #[pymodule] derive pass.           *)
(*                                                                         *)
(* The pass walks the declarations of a module body, turns the binding     *)
(* annotations it recognises (pyfunction, pyattr, pyclass,                 *)
(* pystruct_sequence) into ModuleItems, stores them in a registry keyed by *)
(* (external name, cfg guards), strips consumed annotations and emits one  *)
(* registration statement per registry entry.                              *)
(***************************************************************************)
EXTENDS Naturals, Sequences, FiniteSets, TLC

VARIABLES
    content,      \* the module body: the declarations, annotations mutated in place
    input,        \* the module body as it was handed to impl_pymodule
    module,       \* Module.items: (py_name, cfgs) -> ModuleItem
    diagnostics,  \* extract_module_items' running Vec<Diagnostic>
    idx,          \* position of the walk in the filtered declaration list
    pc,           \* "walk" | "done" | "failed" | "panic" | "registry"
    out,          \* what impl_pymodule returned
    prevOut,      \* what the previous run on the same input returned
    runs,         \* number of completed runs on this input
    calls         \* the add_item calls made directly on a registry, with results

vars == <<content, input, module, diagnostics, idx, pc, out, prevOut, runs, calls>>

(***************************************************************************)
(* Bounds of the model.                                                    *)
(***************************************************************************)
\* Size of a walked module body: declarations plus annotations.
MaxSize == 5
\* Annotations on the single declaration of the extraction specification.
MaxAttrs == 3
\* Direct add_item calls in the registry specification.
MaxCalls == 2
\* Guards of one add_item call in the registry specification.
MaxGuards == 2
\* Runs of the pass on one input in the rerun specification.
MaxRuns == 2

(***************************************************************************)
(* Annotations.  A syn::Attribute either parses as a structured Meta or    *)
(* does not; a Meta has a path, one of three forms and, for the list form, *)
(* nested arguments.  `span` is the source position of the annotation.     *)
(***************************************************************************)
Shape(parses, path, form, nested) ==
    [parses |-> parses, path |-> path, form |-> form, nested |-> nested]

Arg(key, value) == [key |-> key, value |-> value]

PyFunction       == Shape(TRUE, <<"pyfunction">>, "Path", <<>>)
PyFunctionNamed  == Shape(TRUE, <<"pyfunction">>, "List", <<Arg("name", "baz")>>)
PyFunctionNV     == Shape(TRUE, <<"pyfunction">>, "NameValue", <<>>)
PyAttr           == Shape(TRUE, <<"pyattr">>, "Path", <<>>)
PyAttrBadArg     == Shape(TRUE, <<"pyattr">>, "List", <<Arg("module", "m")>>)
PyClass          == Shape(TRUE, <<"pyclass">>, "Path", <<>>)
PyClassNV        == Shape(TRUE, <<"pyclass">>, "NameValue", <<>>)
PyStructSeq      == Shape(TRUE, <<"pystruct_sequence">>, "List", <<Arg("module", "m")>>)
PyStructSeqNamed == Shape(TRUE, <<"pystruct_sequence">>, "List", <<Arg("name", "baz")>>)
CfgUnix          == Shape(TRUE, <<"cfg">>, "List", <<Arg("unix", "")>>)
CfgWindows       == Shape(TRUE, <<"cfg">>, "List", <<Arg("windows", "")>>)
Inline           == Shape(TRUE, <<"inline">>, "Path", <<>>)
RustfmtSkip      == Shape(TRUE, <<"rustfmt", "skip">>, "Path", <<>>)
Unparsable       == Shape(FALSE, <<"weird">>, "List", <<>>)

\* The annotations a declaration of the walked bodies may carry.
WalkShapes ==
    {PyFunction, PyFunctionNamed, PyFunctionNV, PyAttr, PyClass, CfgUnix, Unparsable}

\* The annotations of the single-declaration extraction specification.
AllShapes ==
    {PyFunction, PyFunctionNamed, PyFunctionNV, PyAttr, PyAttrBadArg, PyClass,
     PyClassNV, PyStructSeq, PyStructSeqNamed, CfgUnix, CfgWindows, Inline,
     RustfmtSkip, Unparsable}

ItemTypes == {"Fn", "Struct", "Enum"}

\* Identifier of the declaration at a position of the body.
IdentNames == <<"foo", "bar", "baz", "qux", "quux", "corge", "grault">>

BindingNames == {"pyfunction", "pyattr", "pyclass", "pystruct_sequence"}

(***************************************************************************)
(* Annotation grammar parser.                                              *)
(***************************************************************************)
\* meta_to_vec: a bare path has no arguments, a list yields its arguments,
\* the name/value form is rejected.
meta_to_vec(meta) ==
    CASE meta.form = "Path"      -> [ok |-> TRUE, nesteds |-> <<>>]
      [] meta.form = "List"      -> [ok |-> TRUE, nesteds |-> meta.nested]
      [] meta.form = "NameValue" -> [ok |-> FALSE, nesteds |-> <<>>]

\* Path::get_ident: the identifier of a single-segment path, else none.
get_ident(path) == IF Len(path) = 1 THEN <<path[1]>> ELSE <<>>

\* The recognised-argument sets of the external argument validator.
SIMPLE_NAMES == {"name"}

STRUCT_SEQUENCE_NAMES == {"name", "module"}

\* ItemMeta::from_nested_meta: every argument must be of the recognised set.
from_nested_meta(nesteds, names) ==
    \A i \in 1..Len(nesteds) : nesteds[i].key \in names

\* ItemMeta::simple_name: the explicit name when given, else the declaration's
\* identifier.
simple_name(ident, nesteds) ==
    IF \E i \in 1..Len(nesteds) : nesteds[i].key = "name"
    THEN LET i == CHOOSE j \in 1..Len(nesteds) : nesteds[j].key = "name"
         IN  nesteds[i].value
    ELSE ident

(***************************************************************************)
(* Diagnostics.                                                            *)
(***************************************************************************)
Diagnostic(kind, span, name) == [kind |-> kind, span |-> span, name |-> name]

NoDiagnostic == Diagnostic("None", <<0, 0>>, "")

(***************************************************************************)
(* Item classifier: the four extractors.                                   *)
(***************************************************************************)
ModuleItem(variant, ident, py_name) ==
    [variant |-> variant, item_ident |-> ident, py_name |-> py_name]

NoItem == ModuleItem("None", "", "")

\* The shared body of the extractors: shape check, argument validation, name.
ExtractWith(attr_name, variant, names, ident, meta) ==
    LET v == meta_to_vec(meta)
    IN  IF ~v.ok
        THEN [ok |-> FALSE, item |-> NoItem,
              err |-> Diagnostic("Shape", meta.span, attr_name)]
        ELSE IF ~from_nested_meta(v.nesteds, names)
        THEN [ok |-> FALSE, item |-> NoItem,
              err |-> Diagnostic("Argument", meta.span, attr_name)]
        ELSE [ok |-> TRUE,
              item |-> ModuleItem(variant, ident, simple_name(ident, v.nesteds)),
              err |-> NoDiagnostic]

extract_function(ident, meta) ==
    ExtractWith("pyfunction", "Function", SIMPLE_NAMES, ident, meta)

extract_class(ident, meta) ==
    ExtractWith("pyclass", "Class", SIMPLE_NAMES, ident, meta)

extract_struct_sequence(ident, meta) ==
    ExtractWith("pystruct_sequence", "Class", STRUCT_SEQUENCE_NAMES, ident, meta)

extract_attr(ident, meta) ==
    ExtractWith("pyattr", "EvaluatedAttr", SIMPLE_NAMES, ident, meta)

(***************************************************************************)
(* Item registry.                                                          *)
(***************************************************************************)
\* Module::default(): the empty registry.
Module_default == [k \in {} |-> NoItem]

\* A Meta as a hash-map key: compared structurally, source positions ignored.
MetaKey(meta) == [path |-> meta.path, form |-> meta.form, nested |-> meta.nested]

\* A key that compares the guards as a set, blind to order and repetition.
ItemKeyUnordered(item, cfgs) ==
    <<item.py_name, {cfgs[i] : i \in 1..Len(cfgs)}>>

\* The registry key of an item: its external name and its guard list, in order.
ItemKey(item, cfgs) == <<item.py_name, cfgs>>

\* HashMap::insert: the value is stored under the key, replacing any old one.
MapInsert(m, key, item) ==
    [k \in DOMAIN m \cup {key} |-> IF k = key THEN item ELSE m[k]]

\* An add_item that overwrites without reporting the duplicate.
add_item_silent(m, item, cfgs, span) ==
    [items |-> MapInsert(m, ItemKey(item, cfgs), item),
     ok    |-> TRUE,
     err   |-> NoDiagnostic]

\* Module::add_item: insert, and fail naming the item that was there before.
add_item(m, item, cfgs, span) ==
    LET key == ItemKey(item, cfgs)
    IN  [items |-> MapInsert(m, key, item),
         ok    |-> key \notin DOMAIN m,
         err   |-> IF key \in DOMAIN m
                   THEN Diagnostic("Duplicate", span, m[key].py_name)
                   ELSE NoDiagnostic]

(***************************************************************************)
(* Module::extract_item_from_syn.                                          *)
(***************************************************************************)
\* attr.parse_meta().ok(): the annotations that parse as a structured Meta.
ParsedMetas(attrs) == SelectSeq(attrs, LAMBDA a : a.parses)

ScanStart ==
    [status |-> "ok", attr_idxs |-> <<>>, items |-> <<>>, cfgs |-> <<>>,
     err |-> NoDiagnostic]

\* One extractor call of the scan: the item is pushed, or the error returned.
ScanItem(acc, r, meta) ==
    IF r.ok
    THEN [acc EXCEPT !.items = Append(@, [item |-> r.item, span |-> meta.span])]
    ELSE [acc EXCEPT !.status = "err", !.err = r.err]

\* The position the scan records for a consumed annotation: its place in the
\* enumeration of the parsed annotations, counted from 0.
RecordedIndex(attrs, metas, i) == i - 1

\* The scan over the parsed annotations, from the i-th on.  A failed kind
\* assertion panics; an extractor error returns at once.
RECURSIVE Scan(_, _, _, _)
Scan(item, metas, i, acc) ==
    IF i > Len(metas) THEN acc
    ELSE LET meta == metas[i]
             name == get_ident(meta.path)
             idxd == [acc EXCEPT !.attr_idxs =
                         Append(@, RecordedIndex(item.attrs, metas, i))]
             step ==
               CASE name = <<"pyfunction">> ->
                      IF item.typ # "Fn" THEN [acc EXCEPT !.status = "panic"]
                      ELSE ScanItem(idxd, extract_function(item.ident, meta), meta)
                 [] name = <<"pyattr">> ->
                      IF item.typ # "Fn" THEN [acc EXCEPT !.status = "panic"]
                      ELSE ScanItem(idxd, extract_attr(item.ident, meta), meta)
                 [] name = <<"pyclass">> ->
                      IF item.typ # "Struct" THEN [acc EXCEPT !.status = "panic"]
                      ELSE ScanItem(acc, extract_class(item.ident, meta), meta)
                 [] name = <<"pystruct_sequence">> ->
                      IF item.typ # "Struct" THEN [acc EXCEPT !.status = "panic"]
                      ELSE ScanItem(acc, extract_struct_sequence(item.ident, meta), meta)
                 [] name = <<"cfg">> ->
                      [acc EXCEPT !.cfgs = Append(@, MetaKey(meta))]
                 [] OTHER -> acc
         IN  IF step.status = "ok" THEN Scan(item, metas, i + 1, step) ELSE step

\* An insertion loop that goes on after a failed add_item and returns the
\* first error at the end.
RECURSIVE AddItemsContinue(_, _, _, _)
AddItemsContinue(m, items, cfgs, i) ==
    IF i > Len(items) THEN [items |-> m, ok |-> TRUE, err |-> NoDiagnostic]
    ELSE LET r    == add_item(m, items[i].item, cfgs, items[i].span)
             rest == AddItemsContinue(r.items, items, cfgs, i + 1)
         IN  IF r.ok THEN rest
             ELSE [items |-> rest.items, ok |-> FALSE, err |-> r.err]

\* The insertion loop: every extracted item is added under the declaration's
\* guards; the first failing add_item returns its error.
RECURSIVE AddItems(_, _, _, _)
AddItems(m, items, cfgs, i) ==
    IF i > Len(items) THEN [items |-> m, ok |-> TRUE, err |-> NoDiagnostic]
    ELSE LET r == add_item(m, items[i].item, cfgs, items[i].span)
         IN  IF r.ok THEN AddItems(r.items, items, cfgs, i + 1) ELSE r

\* Vec::retain with the closure of the source: the annotation at position i
\* (from 0) is dropped when i is the first recorded index still pending.
RECURSIVE Retain(_, _, _)
Retain(attrs, attr_idxs, i) ==
    IF i >= Len(attrs) THEN [attrs |-> <<>>, attr_idxs |-> attr_idxs]
    ELSE LET drop == attr_idxs # <<>> /\ Head(attr_idxs) = i
             rest == Retain(attrs, IF drop THEN Tail(attr_idxs) ELSE attr_idxs, i + 1)
         IN  [attrs |-> IF drop THEN rest.attrs ELSE <<attrs[i + 1]>> \o rest.attrs,
              attr_idxs |-> rest.attr_idxs]

\* Vec::remove(at), at counted from 0.
RemoveAt(attrs, at) ==
    [k \in 1..(Len(attrs) - 1) |-> IF k <= at THEN attrs[k] ELSE attrs[k + 1]]

\* The loop after retain, over the indices retain left pending: the i-th of
\* them (from 0) removes position idx - i; out of range, Vec::remove panics.
RECURSIVE RemoveRest(_, _, _)
RemoveRest(attrs, attr_idxs, i) ==
    IF i >= Len(attr_idxs) THEN [ok |-> TRUE, attrs |-> attrs]
    ELSE LET idx_i == attr_idxs[i + 1]
         IN  IF idx_i < i \/ idx_i - i >= Len(attrs)
             THEN [ok |-> FALSE, attrs |-> attrs]
             ELSE RemoveRest(RemoveAt(attrs, idx_i - i), attr_idxs, i + 1)

\* extract_item_from_syn on one declaration and a registry: the status ("ok",
\* "err" or "panic"), the registry and the annotation list it leaves, the
\* items it extracted, the guards it collected and the error it returns.
extract_item_from_syn(m, item) ==
    LET scan == Scan(item, ParsedMetas(item.attrs), 1, ScanStart)
        base == [status |-> scan.status, items |-> m, attrs |-> item.attrs,
                 extracted |-> scan.items, cfgs |-> scan.cfgs, err |-> scan.err]
    IN  IF scan.status # "ok" THEN base
        ELSE LET added == AddItems(m, scan.items, scan.cfgs, 1)
             IN  IF ~added.ok
                 THEN [base EXCEPT !.status = "err", !.items = added.items,
                                   !.err = added.err]
                 ELSE LET kept == Retain(item.attrs, scan.attr_idxs, 0)
                          rest == RemoveRest(kept.attrs, kept.attr_idxs, 0)
                      IN  IF ~rest.ok
                          THEN [base EXCEPT !.status = "panic", !.items = added.items]
                          ELSE [base EXCEPT !.items = added.items,
                                            !.attrs = rest.attrs]

(***************************************************************************)
(* extract_module_items and impl_pymodule.                                 *)
(***************************************************************************)
\* impl_pymodule's filter_map: the function, struct and enum declarations of
\* the body, in order, as positions into the body.
RECURSIVE FilterItems(_, _)
FilterItems(body, d) ==
    IF d > Len(body) THEN <<>>
    ELSE IF body[d].typ \in ItemTypes
         THEN <<d>> \o FilterItems(body, d + 1)
         ELSE FilterItems(body, d + 1)

\* push_diag_result!: the error of a failed result is appended to the list.
push_diag_result(diags, r) ==
    IF r.status = "err" THEN Append(diags, r.err) ELSE diags

\* Diagnostic::from_vec: fails, with all the diagnostics, when there is one.
from_vec(diags) == diags = <<>>

\* One iteration of the walk, stopping the walk at the first diagnostic.
WalkNextFailFast(r, i, n) == IF r.status = "err" THEN n + 1 ELSE i + 1

\* The walk's next position: every declaration is visited.
WalkNext(r, i, n) == i + 1

\* The registration statement of one registry entry.
Statement(key, item) ==
    [cfgs       |-> key[2],
     py_name    |-> item.py_name,
     value      |-> CASE item.variant = "Function"      -> "new_function_named"
                      [] item.variant = "EvaluatedAttr" -> "new_pyobj"
                      [] item.variant = "Class"         -> "make_class",
     item_ident |-> item.item_ident]

\* HashMap::into_iter: some order of the entries.
IterationOrders(m) ==
    LET n == Cardinality(DOMAIN m)
    IN  {o \in [1..n -> DOMAIN m] : \A i, j \in 1..n : o[i] = o[j] => i = j}

\* The declarations impl_pymodule appends to the body.
Appended(ident) == [typ |-> "Other", ident |-> ident, attrs |-> <<>>]

NoOut == [ok |-> FALSE, returned |-> FALSE, functions |-> <<>>, diags |-> <<>>]

\* One iteration of the walk: extract_item_from_syn on the next declaration.
Walk ==
    /\ pc = "walk"
    /\ idx <= Len(FilterItems(content, 1))
    /\ LET items == FilterItems(content, 1)
           d     == items[idx]
           r     == extract_item_from_syn(module, content[d])
       IN  IF r.status = "panic"
           THEN /\ pc' = "panic"
                /\ module' = r.items
                /\ UNCHANGED <<content, diagnostics, idx>>
           ELSE /\ pc' = "walk"
                /\ module' = r.items
                /\ content' = [content EXCEPT ![d].attrs = r.attrs]
                /\ diagnostics' = push_diag_result(diagnostics, r)
                /\ idx' = WalkNext(r, idx, Len(items))
    /\ UNCHANGED <<input, out, prevOut, runs, calls>>

\* After the walk, with diagnostics: the pass fails with all of them.
Fail ==
    /\ pc = "walk"
    /\ idx > Len(FilterItems(content, 1))
    /\ ~from_vec(diagnostics)
    /\ pc' = "failed"
    /\ out' = [ok |-> FALSE, returned |-> TRUE, functions |-> <<>>,
               diags |-> diagnostics]
    /\ UNCHANGED <<content, input, module, diagnostics, idx, prevOut, runs, calls>>

\* After the walk, without diagnostics: one statement per registry entry, in
\* the map's iteration order, and the three generated declarations.
Emit ==
    /\ pc = "walk"
    /\ idx > Len(FilterItems(content, 1))
    /\ from_vec(diagnostics)
    /\ \E o \in IterationOrders(module) :
          out' = [ok |-> TRUE, returned |-> TRUE,
                  functions |-> [i \in 1..Len(o) |-> Statement(o[i], module[o[i]])],
                  diags |-> <<>>]
    /\ content' = content \o <<Appended("MODULE_NAME"), Appended("extend_module"),
                               Appended("make_module")>>
    /\ pc' = "done"
    /\ UNCHANGED <<input, module, diagnostics, idx, prevOut, runs, calls>>

\* The pass is run again on the same input (a fresh process, a fresh map).
Rerun ==
    /\ pc \in {"done", "failed"}
    /\ runs < MaxRuns
    /\ content' = input
    /\ module' = Module_default
    /\ diagnostics' = <<>>
    /\ idx' = 1
    /\ pc' = "walk"
    /\ prevOut' = out
    /\ out' = NoOut
    /\ runs' = runs + 1
    /\ UNCHANGED <<input, calls>>

(***************************************************************************)
(* Inputs.                                                                 *)
(***************************************************************************)
\* The number of annotations of the first d declarations.
RECURSIVE SumLens(_, _)
SumLens(lens, d) == IF d = 0 THEN 0 ELSE lens[d] + SumLens(lens, d - 1)

\* An annotation at a source position.
At(shape, d, i) ==
    [parses |-> shape.parses, path |-> shape.path, form |-> shape.form,
     nested |-> shape.nested, span |-> <<d, i>>]

\* The body of the declarations of kinds typs, the d-th carrying lens[d] of the
\* annotations of flat, in order; each declaration gets the identifier of its
\* position and each annotation its source position.
Body(typs, lens, flat) ==
    [d \in 1..Len(typs) |->
        [typ   |-> typs[d],
         ident |-> IdentNames[d],
         attrs |-> [i \in 1..lens[d] |-> At(flat[SumLens(lens, d - 1) + i], d, i)]]]

\* A declaration other than a function, a struct or an enum is modelled
\* without annotations: the pass never looks at it.
KindsFit(typs, lens) ==
    \A d \in 1..Len(typs) : typs[d] = "Other" => lens[d] = 0

InitRun(body) ==
    /\ content = body
    /\ input = body
    /\ module = Module_default
    /\ diagnostics = <<>>
    /\ idx = 1
    /\ pc = "walk"
    /\ out = NoOut
    /\ prevOut = NoOut
    /\ runs = 1
    /\ calls = <<>>

\* The pass on a module body of several declarations: the bodies of size
\* (declarations plus annotations) at most MaxSize.
Init ==
    \E n \in 0..MaxSize :
      \E lens \in [1..n -> 0..(MaxSize - n)] :
        /\ n + SumLens(lens, n) <= MaxSize
        /\ \E typs \in [1..n -> ItemTypes \cup {"Other"}] :
             /\ KindsFit(typs, lens)
             /\ \E flat \in [1..SumLens(lens, n) -> WalkShapes] :
                  InitRun(Body(typs, lens, flat))

\* The pass on a body of one declaration, over the whole annotation grammar.
InitExtract ==
    \E t \in ItemTypes, k \in 0..MaxAttrs :
      \E flat \in [1..k -> AllShapes] :
        InitRun(Body(<<t>>, <<k>>, flat))

Next == Walk \/ Fail \/ Emit

Spec == Init /\ [][Next]_vars

SpecExtract == InitExtract /\ [][Next]_vars

SpecRerun == InitExtract /\ [][Next \/ Rerun]_vars

(***************************************************************************)
(* The registry on its own: add_item called directly.                      *)
(***************************************************************************)
RegistryItems ==
    {ModuleItem("Function", "foo", "foo"),
     ModuleItem("EvaluatedAttr", "bar", "foo"),
     ModuleItem("Class", "bar", "bar")}

RegistryGuards ==
    UNION {[1..k -> {MetaKey(CfgUnix), MetaKey(CfgWindows)}] : k \in 0..MaxGuards}

InitRegistry ==
    /\ content = <<>>
    /\ input = <<>>
    /\ module = Module_default
    /\ diagnostics = <<>>
    /\ idx = 1
    /\ pc = "registry"
    /\ out = NoOut
    /\ prevOut = NoOut
    /\ runs = 1
    /\ calls = <<>>

AddItemCall ==
    /\ pc = "registry"
    /\ Len(calls) < MaxCalls
    /\ \E item \in RegistryItems, cfgs \in RegistryGuards :
          LET r == add_item(module, item, cfgs, <<Len(calls) + 1, 1>>)
          IN  /\ module' = r.items
              /\ calls' = Append(calls, [item |-> item, cfgs |-> cfgs,
                                         ok |-> r.ok, err |-> r.err,
                                         before |-> module])
    /\ UNCHANGED <<content, input, diagnostics, idx, pc, out, prevOut, runs>>

SpecRegistry == InitRegistry /\ [][AddItemCall]_vars

(***************************************************************************)
(* Vocabulary of the properties, read off the input alone.                 *)
(***************************************************************************)
\* The declarations the walk visits, as positions into the input.
Items == FilterItems(input, 1)

\* The declarations whose walk has completed.
WalkedDecls == {Items[k] : k \in 1..(idx - 1)}

Returned == pc \in {"done", "failed"}

\* A binding annotation: it parses and is named by one of the four names.
IsBinding(a) == a.parses /\ Len(a.path) = 1 /\ a.path[1] \in BindingNames

IsCfg(a) == a.parses /\ a.path = <<"cfg">>

\* A binding annotation the scan records as consumed.
IsConsumed(a) == a.parses /\ Len(a.path) = 1 /\ a.path[1] \in {"pyfunction", "pyattr"}

\* A binding annotation in name/value form or with an unrecognised argument.
IsMalformed(a) ==
    /\ IsBinding(a)
    /\ \/ a.form = "NameValue"
       \/ /\ a.form = "List"
          /\ \E i \in 1..Len(a.nested) :
                a.nested[i].key \notin
                    (IF a.path[1] = "pystruct_sequence" THEN {"name", "module"}
                     ELSE {"name"})

\* The positions of the binding annotations of a declaration.
Bindings(decl) == {i \in 1..Len(decl.attrs) : IsBinding(decl.attrs[i])}

LocalError(decl) == \E i \in Bindings(decl) : IsMalformed(decl.attrs[i])

\* The guards of a declaration: its cfg annotations, in source order.
Guards(decl) ==
    LET cfgs == SelectSeq(decl.attrs, IsCfg)
    IN  [i \in 1..Len(cfgs) |->
            [path |-> cfgs[i].path, form |-> cfgs[i].form, nested |-> cfgs[i].nested]]

\* The external name a well-formed binding annotation gives its declaration.
ExpectedName(decl, a) ==
    IF a.form = "List" /\ \E i \in 1..Len(a.nested) : a.nested[i].key = "name"
    THEN a.nested[CHOOSE i \in 1..Len(a.nested) : a.nested[i].key = "name"].value
    ELSE decl.ident

ExpectedKey(decl, i) == <<ExpectedName(decl, decl.attrs[i]), Guards(decl)>>

\* The registration statement a binding annotation stands for.
ExpectedStatement(decl, i) ==
    [cfgs       |-> Guards(decl),
     py_name    |-> ExpectedName(decl, decl.attrs[i]),
     value      |-> CASE decl.attrs[i].path[1] = "pyfunction" -> "new_function_named"
                      [] decl.attrs[i].path[1] = "pyattr"     -> "new_pyobj"
                      [] OTHER                                -> "make_class",
     item_ident |-> decl.ident]

\* All binding annotations of the walked declarations, as (declaration, position).
AllBindings == UNION {{d} \X Bindings(input[d]) : d \in WalkedDecls}

\* The earlier calls of the registry specification with the key of call i.
EarlierSameKey(i) ==
    {j \in 1..(i - 1) : /\ calls[j].item.py_name = calls[i].item.py_name
                        /\ calls[j].cfgs = calls[i].cfgs}

FirstOf(S) == CHOOSE j \in S : \A k \in S : j <= k

(***************************************************************************)
(* Properties.                                                             *)
(***************************************************************************)
\* C1: add_item fails exactly when an item with the same external name and an
\* equal guard list (as an ordered sequence) was inserted before, and the error
\* then names the external name of the first such item; items of the same name
\* under guard lists that differ in guards, order or length are all accepted.
C1_DuplicateExactlyOnEqualKey ==
    \A i \in 1..Len(calls) :
        /\ calls[i].ok <=> EarlierSameKey(i) = {}
        /\ EarlierSameKey(i) # {} =>
              calls[i].err = Diagnostic("Duplicate", <<i, 1>>,
                                        calls[FirstOf(EarlierSameKey(i))].item.py_name)

\* C1 witness: a second insertion under the same name and the same non-empty
\* guard list has failed, naming the first item.
C1_Witness ==
    /\ Len(calls) = 2
    /\ calls[1].item.py_name = calls[2].item.py_name
    /\ calls[1].item # calls[2].item
    /\ calls[1].cfgs = calls[2].cfgs
    /\ Len(calls[1].cfgs) = 2
    /\ ~calls[2].ok
    /\ calls[2].err.name = calls[1].item.py_name

\* C2: the registry is write-once per key: the item stored under a key is the
\* first item inserted under it, and a failed add_item leaves the registry as
\* it was.
C2_WriteOncePerKey ==
    /\ \A i \in 1..Len(calls) :
          LET key == <<calls[i].item.py_name, calls[i].cfgs>>
          IN  EarlierSameKey(i) = {} => module[key] = calls[i].item
    /\ \A i \in 1..Len(calls) :
          ~calls[i].ok =>
              (IF i = Len(calls) THEN module ELSE calls[i + 1].before) = calls[i].before

\* C3: the walk visits every declaration, in order, also after a diagnostic;
\* the diagnostics are in declaration order; the pass returns only after the
\* whole walk, and fails, with all diagnostics, exactly when there is one; two
\* functions bound to the same explicit name without guards fail with exactly
\* one Duplicate diagnostic naming it.
C3_FailTogether ==
    /\ \A i, j \in 1..Len(diagnostics) :
          i < j => diagnostics[i].span[1] < diagnostics[j].span[1]
    /\ \A d \in WalkedDecls :
          LocalError(input[d]) => \E i \in 1..Len(diagnostics) : diagnostics[i].span[1] = d
    /\ Returned =>
          /\ idx = Len(Items) + 1
          /\ (pc = "failed") <=> (diagnostics # <<>>)
          /\ out.ok <=> (diagnostics = <<>>)
          /\ out.diags = diagnostics
          /\ out.ok => Len(out.functions) = Cardinality(DOMAIN module)
    /\ (Returned /\ input = Body(<<"Fn", "Fn">>, <<1, 1>>,
                                 <<PyFunctionNamed, PyFunctionNamed>>)) =>
          /\ ~out.ok
          /\ out.diags = <<Diagnostic("Duplicate", <<2, 1>>, "baz")>>

\* C3 witness: the pass has failed with two diagnostics, the second from a
\* declaration walked after the one that gave the first.
C3_Witness ==
    /\ pc = "failed"
    /\ Len(out.diags) = 2
    /\ out.diags[1].span[1] = 1
    /\ out.diags[2].span[1] = 2
    /\ out.diags[2].kind = "Duplicate"

\* A declaration was walked without a diagnostic and without a panic.
WalkedCleanly(d) ==
    /\ d \in WalkedDecls
    /\ \A i \in 1..Len(diagnostics) : diagnostics[i].span[1] # d

\* C4: after a successful extraction from a declaration that carries binding
\* annotations, none of the four binding annotations is left on it, and a
\* second extraction from it yields no item and leaves its annotations as
\* they are.
C4_StrippingIdempotent ==
    \A d \in WalkedDecls :
        (WalkedCleanly(d) /\ Bindings(input[d]) # {}) =>
            /\ Bindings(content[d]) = {}
            /\ LET again == extract_item_from_syn(Module_default, content[d])
               IN  /\ again.status = "ok"
                   /\ again.extracted = <<>>
                   /\ again.attrs = content[d].attrs

\* C5: after a successful extraction the annotations removed are exactly the
\* consumed ones (those whose position the scan recorded); every other
\* annotation is still there, in the original order.
C5_StripsExactlyConsumed ==
    \A d \in WalkedDecls :
        WalkedCleanly(d) =>
            content[d].attrs = SelectSeq(input[d].attrs, LAMBDA a : ~IsConsumed(a))

\* The guards part of C6: every emitted statement carries the guards of the
\* declaration it comes from, in source order, and the statements of one
\* declaration carry the same guards.
GuardsCarried ==
    pc = "done" =>
        \A k \in 1..Len(out.functions) :
            \E d \in WalkedDecls :
                /\ out.functions[k].item_ident = input[d].ident
                /\ out.functions[k].cfgs = Guards(input[d])

\* C6: on a successful run every emitted statement is preceded by exactly the
\* cfg annotations of its declaration, in source order, and the cfg
\* annotations stay on the declaration.
C6_GuardsEndToEnd ==
    /\ GuardsCarried
    /\ pc = "done" =>
          \A d \in WalkedDecls :
              SelectSeq(content[d].attrs, IsCfg) = SelectSeq(input[d].attrs, IsCfg)

\* C7 as stated: an error of one annotation, or a duplicate of one item, only
\* loses that one: every other well-formed binding annotation of a walked
\* declaration has its key in the registry.
C7_OnlyTheAnnotationAborted ==
    \A d \in WalkedDecls :
        \A i \in Bindings(input[d]) :
            ~IsMalformed(input[d].attrs[i]) => ExpectedKey(input[d], i) \in DOMAIN module

\* C7, amended: an iteration of the walk that does not panic goes on to the
\* next declaration.  When it records a diagnostic it records exactly one, of
\* the declaration just walked, and strips nothing from it; after an
\* annotation error the registry is as before; after a duplicate the registry
\* has gained the keys of the declaration's binding annotations up to the
\* duplicate one and no key of a later one.
C7_ErrorAbortsDeclaration ==
    [][(pc = "walk" /\ pc' = "walk" /\ <<idx, diagnostics, module>>' # <<idx, diagnostics, module>>) =>
          /\ idx' = idx + 1
          /\ Len(diagnostics') <= Len(diagnostics) + 1
          /\ diagnostics' # diagnostics =>
                LET e == diagnostics'[Len(diagnostics')]
                    d == Items[idx]
                IN  /\ e.span[1] = d
                    /\ content' = content
                    /\ e.kind \in {"Shape", "Argument"} => module' = module
                    /\ e.kind = "Duplicate" =>
                          DOMAIN module' = DOMAIN module \cup
                              {ExpectedKey(input[d], i) :
                                  i \in {j \in Bindings(input[d]) : j <= e.span[2]}}
                    /\ e.kind \in {"Shape", "Argument", "Duplicate"}
      ]_vars

\* C7 witness: the first declaration had an annotation error next to a
\* well-formed binding annotation and none of its items is in the registry;
\* the walk went on and the item of the second declaration is.
C7_Witness ==
    /\ idx = 3
    /\ Items = <<1, 2>>
    /\ Len(diagnostics) = 1
    /\ diagnostics[1].kind = "Shape"
    /\ diagnostics[1].span[1] = 1
    /\ \E i \in Bindings(input[1]) : ~IsMalformed(input[1].attrs[i])
    /\ content[1] = input[1]
    /\ DOMAIN module = {ExpectedKey(input[2], i) : i \in Bindings(input[2])}
    /\ DOMAIN module # {}

\* C8: two runs of the pass on the same input emit the same sequence of
\* registration statements.
C8_EmissionDeterministic ==
    (runs > 1 /\ Returned) => out.functions = prevOut.functions

\* C9: no run hits a failed kind assertion.
C9_AssertionsNeverFail == pc # "panic"

\* C10: when the pass succeeds, there are as many emitted statements as
\* binding annotations on the walked declarations, every binding annotation
\* has its statement (external name, declaration identifier, guards), and
\* in every state each registry key's name is its item's external name.
C10_NoBindingDropped ==
    /\ \A key \in DOMAIN module : key[1] = module[key].py_name
    /\ pc = "done" =>
          /\ Len(out.functions) = Cardinality(AllBindings)
          /\ \A b \in AllBindings :
                \E k \in 1..Len(out.functions) :
                    out.functions[k] = ExpectedStatement(input[b[1]], b[2])
          /\ \A k \in 1..Len(out.functions) :
                \E b \in AllBindings :
                    out.functions[k] = ExpectedStatement(input[b[1]], b[2])

\* C10 witness: a successful run has emitted the statements of two binding
\* annotations of two declarations, under the same external name with
\* different guards.
C10_Witness ==
    /\ pc = "done"
    /\ Len(out.functions) = 2
    /\ out.functions[1].item_ident # out.functions[2].item_ident
    /\ out.functions[1].py_name = out.functions[2].py_name
    /\ out.functions[1].cfgs # out.functions[2].cfgs

====
